---- MODULE Spec2Model ----
(***************************************************************************)
(* The HFMD dashboard's data pipeline: the three page scripts home.py,     *)
(* hfmd_visualisation.py and regional_comparison.py.  Every rerun of a     *)
(* page executes its script top to bottom: cached load, header             *)
(* normalisation, date parsing, total_cases, monthly resample, summary.    *)
(* The st.cache_data caches of the three loader functions live as long as  *)
(* the server process.                                                     *)
(***************************************************************************)
EXTENDS Integers, Sequences, FiniteSets, TLC

VARIABLES
    source,     \* the table the CSV at the URL holds
    reachable,  \* whether pd.read_csv(url) succeeds right now
    cache,      \* per loader function: <<>> or <<the cached return value>>
    fetchLog,   \* per loader function: the outcomes of its pd.read_csv calls
    runs,       \* script runs started in this process
    page,       \* the page script of the current run
    pc,         \* the position of the current run in its script
    fetched,    \* whether the current run called pd.read_csv
    df,         \* the run's data frame (df_raw in home.py)
    df_m,       \* the run's monthly frame
    stats,      \* the summary-box values of the run
    err         \* the error the run ended with

vars == <<source, reachable, cache, fetchLog, runs, page, pc, fetched, df, df_m, stats, err>>

----------------------------------------------------------------------------
(* Bounds of the model. *)

\* Daily rows of a table of the date family.
MaxRows == 3
\* Largest case count in a region cell of the value family.
MaxVal == 2
\* Script runs of one process.
MaxRuns == 4

----------------------------------------------------------------------------
(* Cells.  A cell of a data column is a case count or weather reading      *)
(* (>= 0), a missing value (NaN), or text that is no number.               *)

NaN == -1
NonNumeric == -2
\* pd.to_datetime(..., errors="coerce") yields NaT for a cell it cannot parse.
NaT == -1

regions == <<"southern", "northern", "central", "east_coast", "borneo">>
weather_cols == <<"temp_c", "rain_c", "rh_c">>
month_names == <<"Jan", "Feb", "Mar", "Apr", "May", "Jun", "Jul", "Aug", "Sep", "Oct", "Nov", "Dec">>

Range(s) == {s[i] : i \in 1..Len(s)}
DataCols == Range(regions) \cup Range(weather_cols)

Pages == {"home", "visualise", "regional"}
Loaders == {"load_raw", "load_data_vis", "load_data_reg"}

\* The loader function a page script defines and calls.
LoaderOf(p) ==
    CASE p = "home" -> "load_raw"
      [] p = "visualise" -> "load_data_vis"
      [] p = "regional" -> "load_data_reg"

\* c.strip().lower().replace(" ", "_") on the headers the model's tables use.
NormalizeHeader(h) ==
    CASE h = "Date" -> "date"
      [] h = "Southern" -> "southern"
      [] h = "Northern" -> "northern"
      [] h = "Central" -> "central"
      [] h = "East Coast" -> "east_coast"
      [] h = "East_Coast" -> "east_coast"
      [] h = " Borneo" -> "borneo"
      [] h = "Borneo" -> "borneo"
      [] h = "Temp_C" -> "temp_c"
      [] h = "Rain_C" -> "rain_c"
      [] h = "RH_C" -> "rh_c"
      [] OTHER -> h

\* pd.DataFrame(): no columns, no rows.
EmptyFrame == [cols |-> {}, rows |-> <<>>]

\* DataFrame.empty: no rows, or no columns.
IsEmpty(t) == t.cols = {} \/ Len(t.rows) = 0

----------------------------------------------------------------------------
(* Arithmetic.  Means are exact fractions [def, n, d] in lowest terms;     *)
(* def = FALSE is pandas' NaN.                                             *)

Abs(x) == IF x < 0 THEN -x ELSE x

RECURSIVE GCD(_, _)
GCD(a, b) == IF b = 0 THEN a ELSE GCD(b, a % b)

LCM(a, b) == (a \div GCD(a, b)) * b

Undefined == [def |-> FALSE, n |-> 0, d |-> 1]

Rat(n, d) == LET g == GCD(Abs(n), d) IN [def |-> TRUE, n |-> n \div g, d |-> d \div g]

RatLess(a, b) == a.n * b.d < b.n * a.d

RatAdd(a, b) == Rat(a.n * b.d + b.n * a.d, a.d * b.d)

RatSub(a, b) == Rat(a.n * b.d - b.n * a.d, a.d * b.d)

\* The mean of the defined entries of a sequence of fractions (skipna=True).
RECURSIVE SumDefined(_, _)
SumDefined(s, i) ==
    IF i = 0 THEN <<Rat(0, 1), 0>>
    ELSE LET r == SumDefined(s, i - 1)
         IN  IF s[i].def THEN <<RatAdd(r[1], s[i]), r[2] + 1>> ELSE r

Mean(s) ==
    LET r == SumDefined(s, Len(s))
    IN  IF r[2] = 0 THEN Undefined ELSE Rat(r[1].n, r[1].d * r[2])

\* sorted(S) for a finite set of integers.
RECURSIVE Sorted(_)
Sorted(S) ==
    IF S = {} THEN <<>>
    ELSE LET m == CHOOSE x \in S : \A y \in S : x <= y
         IN  <<m>> \o Sorted(S \ {m})

----------------------------------------------------------------------------
(* Dates.  A date cell is text <<day, month, year>> read under the format  *)
(* "%d/%m/%Y"; <<0, 0, 0>> stands for text of another shape.               *)

IsLeap(y) == (y % 4 = 0 /\ y % 100 # 0) \/ y % 400 = 0

DaysIn(m, y) ==
    CASE m = 2 -> IF IsLeap(y) THEN 29 ELSE 28
      [] m \in {4, 6, 9, 11} -> 30
      [] OTHER -> 31

\* pd.to_datetime(cell, format="%d/%m/%Y", errors="coerce"), kept to the month:
\* the month's index year * 12 + (month - 1), or NaT.
to_datetime(c) ==
    IF c[2] \in 1..12 /\ c[1] >= 1 /\ c[1] <= DaysIn(c[2], c[3]) /\ c[3] >= 1
    THEN c[3] * 12 + (c[2] - 1)
    ELSE NaT

YearOf(ym) == ym \div 12
MonthOf(ym) == (ym % 12) + 1

----------------------------------------------------------------------------
(* Frames.  A loaded frame is [cols, rows]: the column labels and the rows *)
(* [date, cells], cells keyed by the normalised name of the data column.   *)

\* The dtype pd.read_csv gives a column: numeric unless some row holds text
\* that is no number (object dtype); a table without rows has object columns
\* only, and so has the date column.
IsNumeric(t, c) ==
    /\ NormalizeHeader(c) \in DataCols
    /\ Len(t.rows) > 0
    /\ \A i \in 1..Len(t.rows) : t.rows[i].cells[NormalizeHeader(c)] # NonNumeric

NumericCols(t) == {NormalizeHeader(c) : c \in {x \in t.cols : IsNumeric(t, x)}}

\* df.columns = [c.strip().lower().replace(" ", "_") for c in df.columns]
NormalizeColumns(t) == [t EXCEPT !.cols = {NormalizeHeader(c) : c \in t.cols}]

\* df["date"] = pd.to_datetime(...); df = df.dropna(subset=["date"])
ParseDates(rows) ==
    LET parsed == [i \in 1..Len(rows) |-> [rows[i] EXCEPT !.date = to_datetime(rows[i].date)]]
        Valid(r) == r.date # NaT
    IN  SelectSeq(parsed, Valid)

\* df.sort_values("date"): insertion of each row after the rows that are not
\* later.  Rows of one month stay in source order; no later step reads the
\* order of the rows.
RECURSIVE SortByDate(_)
SortByDate(rows) ==
    IF Len(rows) <= 1 THEN rows
    ELSE LET n == Len(rows)
             head == SortByDate(SubSeq(rows, 1, n - 1))
             last == rows[n]
             NotLater(r) == r.date <= last.date
             Later(r) == r.date > last.date
         IN  SelectSeq(head, NotLater) \o <<last>> \o SelectSeq(head, Later)

\* The region columns the frame lacks, in the order of the list.
MissingRegions(cols) ==
    LET Absent(c) == c \notin cols
    IN  SelectSeq(regions, Absent)

\* df[regions].sum(axis=1, numeric_only=True) for one row: the sum over the
\* region columns of numeric dtype, a NaN cell skipped.
RECURSIVE SumRegions(_, _, _)
SumRegions(numeric, cells, i) ==
    IF i = 0 THEN 0
    ELSE SumRegions(numeric, cells, i - 1)
         + (IF regions[i] \in numeric /\ cells[regions[i]] # NaN THEN cells[regions[i]] ELSE 0)

total_cases(numeric, cells) == SumRegions(numeric, cells, Len(regions))

AddTotals(numeric, rows) ==
    [i \in 1..Len(rows) |->
        [date |-> rows[i].date, cells |-> rows[i].cells,
         total_cases |-> total_cases(numeric, rows[i].cells)]]

----------------------------------------------------------------------------
(* Monthly resample.                                                       *)

ValueOf(r, c) == IF c = "total_cases" THEN r.total_cases ELSE r.cells[c]

\* Sum and count of the values column c has in the rows of month ym.
RECURSIVE SumMonth(_, _, _, _)
SumMonth(rows, ym, c, i) ==
    IF i = 0 THEN <<0, 0>>
    ELSE LET r == SumMonth(rows, ym, c, i - 1)
             v == ValueOf(rows[i], c)
         IN  IF rows[i].date = ym /\ v # NaN THEN <<r[1] + v, r[2] + 1>> ELSE r

MonthMean(rows, ym, c) ==
    LET r == SumMonth(rows, ym, c, Len(rows))
    IN  IF r[2] = 0 THEN Undefined ELSE Rat(r[1], r[2])

\* df.set_index("date").resample("M").mean(numeric_only=True).reset_index():
\* one row per month end from the first row's month to the last row's month,
\* the months between them that hold no row included (their means are NaN);
\* the columns that are not numeric are dropped.
Resample(d) ==
    IF Len(d.rows) = 0 THEN <<>>
    ELSE LET ms == {d.rows[i].date : i \in 1..Len(d.rows)}
             lo == CHOOSE x \in ms : \A y \in ms : x <= y
             hi == CHOOSE x \in ms : \A y \in ms : x >= y
         IN  [k \in 1..(hi - lo + 1) |->
                 [date |-> lo + k - 1,
                  mean |-> [c \in d.numeric \cup {"total_cases"} |->
                               MonthMean(d.rows, lo + k - 1, c)]]]

\* df_m["Year"] = df_m["date"].dt.year; df_m["Month"] = df_m["date"].dt.month
\* (regional_comparison.py derives the year only).
AddYearMonth(p, m) ==
    [k \in 1..Len(m) |->
        IF p = "regional"
        THEN [date |-> m[k].date, mean |-> m[k].mean, Year |-> YearOf(m[k].date)]
        ELSE [date |-> m[k].date, mean |-> m[k].mean, Year |-> YearOf(m[k].date),
              Month |-> MonthOf(m[k].date)]]

\* df_m.empty or df_m["total_cases"].isna().all()
MonthlyIsEmpty(m) ==
    Len(m) = 0 \/ \A k \in 1..Len(m) : ~m[k].mean["total_cases"].def

----------------------------------------------------------------------------
(* Summary box of home.py.                                                 *)

Column(m, c) == [k \in 1..Len(m) |-> m[k].mean[c]]

\* df_m["total_cases"].mean()
avg_monthly(m) == Mean(Column(m, "total_cases"))

\* df_m.groupby("Year")["total_cases"].mean(), at one year.
YearMean(m, y) ==
    LET InYear(r) == r.Year = y
    IN  Mean(Column(SelectSeq(m, InYear), "total_cases"))

\* df_m.groupby("Month")["total_cases"].mean(), at one calendar month.
MonthGroupMean(m, mo) ==
    LET InMonth(r) == r.Month = mo
    IN  Mean(Column(SelectSeq(m, InMonth), "total_cases"))

Years(m) == {m[k].Year : k \in 1..Len(m)}
MonthsPresent(m) == {m[k].Month : k \in 1..Len(m)}

\* .idxmax() of the yearly means: the first year, in ascending order, whose
\* mean is the greatest; the years whose mean is NaN are skipped.
peak_year(m) ==
    LET ys == {y \in Years(m) : YearMean(m, y).def}
    IN  CHOOSE y \in ys :
            \A z \in ys : /\ ~RatLess(YearMean(m, y), YearMean(m, z))
                          /\ (z < y => RatLess(YearMean(m, z), YearMean(m, y)))

\* .sort_values(ascending=False).head(3).index.tolist(), as a set: the results
\* the sort can give.  sort_values sorts with its default kind="quicksort",
\* which numpy documents as not stable: equal means may come out in any
\* order, so any of the months tied for a place may take it.  The months
\* whose mean is NaN come last, in calendar order.
TopMonthsChoices(m) ==
    LET present == MonthsPresent(m)
        defd == {mo \in present : MonthGroupMean(m, mo).def}
        nans == Sorted(present \ defd)
        k == IF Cardinality(present) < 3 THEN Cardinality(present) ELSE 3
        kd == IF Cardinality(defd) < k THEN Cardinality(defd) ELSE k
    IN  {D \cup {nans[i] : i \in 1..(k - kd)} :
            D \in {D \in SUBSET defd :
                      /\ Cardinality(D) = kd
                      /\ \A a \in D : \A b \in defd \ D :
                             ~RatLess(MonthGroupMean(m, a), MonthGroupMean(m, b))}}

\* " - ".join(month_names[m-1] for m in sorted(top_months)), as the sequence
\* of the names joined.
seasonal_peak(top) ==
    LET s == Sorted(top) IN [i \in 1..Len(s) |-> month_names[s[i]]]

----------------------------------------------------------------------------
(* Summary box of hfmd_visualisation.py.  A correlation coefficient is     *)
(* [def, v]: v its value in hundredths once rounded to 2 decimals.         *)

NanCorr == [def |-> FALSE, v |-> 0]

RECURSIVE LcmDen(_, _)
LcmDen(s, i) == IF i = 0 THEN 1 ELSE LCM(LcmDen(s, i - 1), s[i].d)

\* The fractions of s as integers over their common denominator (Pearson's
\* coefficient does not change when a series is scaled by a positive number).
Scaled(s) == LET L == LcmDen(s, Len(s)) IN [i \in 1..Len(s) |-> s[i].n * (L \div s[i].d)]

RECURSIVE SumProd(_, _, _)
SumProd(X, Y, i) == IF i = 0 THEN 0 ELSE SumProd(X, Y, i - 1) + X[i] * Y[i]

\* round(100 * |r|) for r * r = cov * cov / (vx * vy), halves to the even
\* neighbour as np.round does.
RoundedAbs(cov, vx, vy) ==
    LET g == GCD(cov * cov, vx * vy)
        p == (cov * cov) \div g
        q == (vx * vy) \div g
        Lo(k) == (2 * k - 1) * (2 * k - 1) * q
        Hi(k) == (2 * k + 1) * (2 * k + 1) * q
    IN  CHOOSE k \in 0..100 :
            /\ k = 0 \/ Lo(k) < 40000 * p \/ (Lo(k) = 40000 * p /\ k % 2 = 0)
            /\ 40000 * p < Hi(k) \/ (40000 * p = Hi(k) /\ k % 2 = 0)

\* Series.corr (Pearson) of two columns of the monthly frame over the rows
\* where both are defined, rounded to 2 decimals; NaN with fewer than two
\* such rows or when a column does not vary.
Pearson(xs, ys) ==
    LET Both(k) == xs[k].def /\ ys[k].def
        idx == Sorted({k \in 1..Len(xs) : Both(k)})
        n == Len(idx)
        X == Scaled([i \in 1..n |-> xs[idx[i]]])
        Y == Scaled([i \in 1..n |-> ys[idx[i]]])
        One == [i \in 1..n |-> 1]
        sx == SumProd(X, One, n)
        sy == SumProd(Y, One, n)
        cov == n * SumProd(X, Y, n) - sx * sy
        vx == n * SumProd(X, X, n) - sx * sx
        vy == n * SumProd(Y, Y, n) - sy * sy
    IN  IF n < 2 \/ vx = 0 \/ vy = 0 THEN NanCorr
        ELSE [def |-> TRUE, v |-> (IF cov < 0 THEN -1 ELSE 1) * RoundedAbs(cov, vx, vy)]

\* np.round(df_m[x].corr(df_m[y]), 2) if x in df_m and y in df_m else np.nan
safe_corr(m, cols, x, y) ==
    IF x \in cols /\ y \in cols THEN Pearson(Column(m, x), Column(m, y)) ELSE NanCorr

\* The key without the isnan guard's -1: an undefined coefficient counts as zero.
StrongestKeyNanAsZero(c) == IF c.def THEN Abs(c.v) ELSE 0

\* key=lambda x: abs(x[1]) if not np.isnan(x[1]) else -1
StrongestKey(c) == IF c.def THEN Abs(c.v) ELSE -1

\* max([("Temperature", corr_temp), ("Rainfall", corr_rain), ("Humidity", corr_rh)],
\*     key=...)[0]: the first entry of the list whose key is the greatest.
strongest(corr_temp, corr_rain, corr_rh) ==
    LET items == << <<"Temperature", corr_temp>>, <<"Rainfall", corr_rain>>,
                    <<"Humidity", corr_rh>> >>
        i == CHOOSE i \in 1..3 :
                 /\ \A j \in 1..3 : StrongestKey(items[j][2]) <= StrongestKey(items[i][2])
                 /\ \A j \in 1..(i - 1) : StrongestKey(items[j][2]) < StrongestKey(items[i][2])
    IN  items[i][1]

----------------------------------------------------------------------------
(* Summary box of regional_comparison.py.                                  *)

\* df_m[regions].mean(): the mean of each region column over the months.
RegionMeans(m) == [i \in 1..Len(regions) |-> Mean(Column(m, regions[i]))]

\* .replace("_", " ").title() on a region's name.
TitleOf(c) ==
    CASE c = "southern" -> "Southern"
      [] c = "northern" -> "Northern"
      [] c = "central" -> "Central"
      [] c = "east_coast" -> "East Coast"
      [] c = "borneo" -> "Borneo"

\* .idxmax() / .idxmin(): the first region of the list with the extreme mean.
ArgExtreme(rm, wantMax) ==
    LET Better(a, b) == IF wantMax THEN RatLess(b, a) ELSE RatLess(a, b)
    IN  CHOOSE i \in 1..Len(rm) :
            /\ rm[i].def
            /\ \A j \in 1..Len(rm) : rm[j].def => ~Better(rm[j], rm[i])
            /\ \A j \in 1..(i - 1) : rm[j].def => Better(rm[i], rm[j])

----------------------------------------------------------------------------
(* The loaders.  A call's outcome is [raised, value].                      *)

\* home.py: load_raw has no try: a failing pd.read_csv raises out of it.
load_raw(src, ok) ==
    IF ok THEN [raised |-> FALSE, value |-> NormalizeColumns(src)]
    ELSE [raised |-> TRUE, value |-> EmptyFrame]

\* load_data without its try: the failure raises, as in load_raw.
load_data_raising(src, ok) ==
    IF ok THEN [raised |-> FALSE, value |-> src]
    ELSE [raised |-> TRUE, value |-> EmptyFrame]

\* hfmd_visualisation.py, regional_comparison.py: load_data catches the
\* failure, reports it and returns pd.DataFrame().
load_data(src, ok) ==
    IF ok THEN [raised |-> FALSE, value |-> src]
    ELSE [raised |-> FALSE, value |-> EmptyFrame]

LoaderBody(l, src, ok) == IF l = "load_raw" THEN load_raw(src, ok) ELSE load_data(src, ok)

\* The loader without @st.cache_data: every call runs the function.
CacheNeverHits(l) == FALSE

\* @st.cache_data: a call whose argument (the one URL) has an entry is served
\* from it.
CacheHit(l) == cache[l] # <<>>

\* The callers without the df.empty check: hfmd_visualisation.py and
\* regional_comparison.py go on with whatever load_data returned.
LoadFailedUnchecked(p, out) == p = "home" /\ out.raised

\* Whether the caller ends the run on the loader's outcome: home.py in its
\* except Exception, the other two scripts on df.empty.
LoadFailed(p, out) == IF p = "home" THEN out.raised ELSE IsEmpty(out.value)

NoErr == [kind |-> "none", cols |-> <<>>]
NoStats == [kind |-> "none"]

----------------------------------------------------------------------------
(* The script runs.                                                        *)

Ended == {"idle", "done", "halted", "crashed"}

\* A rerun of page p starts its script at the top.
StartRun(p) ==
    /\ pc \in Ended
    /\ runs < MaxRuns
    /\ runs' = runs + 1
    /\ page' = p
    /\ pc' = "load"
    /\ fetched' = FALSE
    /\ df' = EmptyFrame
    /\ df_m' = <<>>
    /\ stats' = NoStats
    /\ err' = NoErr
    /\ UNCHANGED <<source, reachable, cache, fetchLog>>

\* df = load_data(url) / df_raw = load_raw(DATA_URL), and what the script
\* does with a failure.  st.cache_data stores the value of a call that
\* returns; a call that raises stores nothing.
Load ==
    /\ pc = "load"
    /\ LET l == LoaderOf(page)
           hit == CacheHit(l)
           out == IF hit THEN [raised |-> FALSE, value |-> cache[l][1]]
                  ELSE LoaderBody(l, source, reachable)
       IN  /\ fetched' = ~hit
           /\ fetchLog' = IF hit THEN fetchLog
                          ELSE [fetchLog EXCEPT ![l] = Append(@, IF reachable THEN "ok" ELSE "fail")]
           /\ cache' = IF ~hit /\ ~out.raised THEN [cache EXCEPT ![l] = <<out.value>>] ELSE cache
           /\ IF LoadFailed(page, out)
              THEN /\ pc' = "halted"
                   /\ err' = [kind |-> "load", cols |-> <<>>]
                   /\ df' = df
              ELSE /\ pc' = "normalize"
                   /\ err' = err
                   /\ df' = out.value
    /\ UNCHANGED <<source, reachable, runs, page, df_m, stats>>

\* The frame with its dates parsed, the rows without a date dropped, sorted
\* where the script sorts, and total_cases added.
Normalized(p, t) ==
    LET parsed == ParseDates(t.rows)
        rows == IF p = "visualise" THEN parsed ELSE SortByDate(parsed)
    IN  [cols |-> t.cols \cup {"total_cases"},
         numeric |-> NumericCols(t),
         rows |-> AddTotals(NumericCols(t), rows)]

\* From the header normalisation to total_cases.  home.py checks for the date
\* column and the region columns and stops with st.error; the other two scripts
\* index the columns unchecked, and a missing one is an uncaught KeyError
\* (pandas names the missing labels in it).
Normalize ==
    /\ pc = "normalize"
    /\ LET t == IF page = "home" THEN df ELSE NormalizeColumns(df)
           missing == MissingRegions(t.cols)
       IN  IF "date" \notin t.cols
           THEN /\ pc' = IF page = "home" THEN "halted" ELSE "crashed"
                /\ err' = IF page = "home" THEN [kind |-> "missing_date", cols |-> <<"date">>]
                          ELSE [kind |-> "KeyError", cols |-> <<"date">>]
                /\ df' = t
           ELSE IF missing # <<>>
           THEN /\ pc' = IF page = "home" THEN "halted" ELSE "crashed"
                /\ err' = IF page = "home" THEN [kind |-> "missing_regions", cols |-> missing]
                          ELSE [kind |-> "KeyError", cols |-> missing]
                /\ df' = [cols |-> t.cols, rows |-> IF page = "visualise" THEN ParseDates(t.rows)
                                                    ELSE SortByDate(ParseDates(t.rows))]
           ELSE /\ pc' = "aggregate"
                /\ err' = err
                /\ df' = Normalized(page, t)
    /\ UNCHANGED <<source, reachable, cache, fetchLog, runs, page, fetched, df_m, stats>>

\* The monthly resample, and home.py's check of its result.
Aggregate ==
    /\ pc = "aggregate"
    /\ df_m' = AddYearMonth(page, Resample(df))
    /\ IF page = "home" /\ MonthlyIsEmpty(df_m')
       THEN /\ pc' = "halted"
            /\ err' = [kind |-> "empty_monthly", cols |-> <<>>]
       ELSE /\ pc' = "summarize"
            /\ err' = err
    /\ UNCHANGED <<source, reachable, cache, fetchLog, runs, page, fetched, df, stats>>

SummarizeHome ==
    /\ page = "home"
    /\ \E top \in TopMonthsChoices(df_m) :
           stats' = [kind |-> "home",
                     avg_monthly |-> avg_monthly(df_m),
                     peak_year |-> peak_year(df_m),
                     top_months |-> top,
                     seasonal_peak |-> seasonal_peak(top)]
    /\ pc' = "done"
    /\ err' = err

SummarizeVisualise ==
    /\ page = "visualise"
    /\ LET cols == df.numeric \cup {"total_cases"}
           corr_temp == safe_corr(df_m, cols, "temp_c", "total_cases")
           corr_rain == safe_corr(df_m, cols, "rain_c", "total_cases")
           corr_rh == safe_corr(df_m, cols, "rh_c", "total_cases")
       IN  stats' = [kind |-> "visualise",
                     corr_temp |-> corr_temp, corr_rain |-> corr_rain, corr_rh |-> corr_rh,
                     strongest |-> strongest(corr_temp, corr_rain, corr_rh)]
    /\ pc' = "done"
    /\ err' = err

\* df_m[regions] is a KeyError when the resample dropped a region column (its
\* dtype was not numeric); idxmax over means that are all NaN fails too.
SummarizeRegional ==
    /\ page = "regional"
    /\ LET dropped == SelectSeq(regions, LAMBDA c : c \notin df.numeric)
           rm == RegionMeans(df_m)
       IN  IF dropped # <<>>
           THEN /\ pc' = "crashed"
                /\ err' = [kind |-> "KeyError", cols |-> dropped]
                /\ stats' = stats
           ELSE IF \A i \in 1..Len(rm) : ~rm[i].def
           THEN /\ pc' = "crashed"
                /\ err' = [kind |-> "ValueError", cols |-> <<>>]
                /\ stats' = stats
           ELSE /\ pc' = "done"
                /\ err' = err
                /\ stats' = [kind |-> "regional",
                             avg_cases |-> Mean(rm),
                             highest_region |-> TitleOf(regions[ArgExtreme(rm, TRUE)]),
                             lowest_region |-> TitleOf(regions[ArgExtreme(rm, FALSE)]),
                             region_gap |-> RatSub(rm[ArgExtreme(rm, TRUE)], rm[ArgExtreme(rm, FALSE)])]

\* The summary box of the page.
Summarize ==
    /\ pc = "summarize"
    /\ (SummarizeHome \/ SummarizeVisualise \/ SummarizeRegional)
    /\ UNCHANGED <<source, reachable, cache, fetchLog, runs, page, fetched, df, df_m>>

\* The source becomes unreachable, or reachable again.
SourceChange ==
    /\ reachable' = ~reachable
    /\ UNCHANGED <<source, cache, fetchLog, runs, page, pc, fetched, df, df_m, stats, err>>

----------------------------------------------------------------------------
(* The input tables.                                                       *)

AllHeaders == {"Date", "Southern", "Northern", "Central", "East Coast", "Borneo",
               "Temp_C", "Rain_C", "RH_C"}
RegionHeaders == {"Southern", "Northern", "Central", "East Coast", "Borneo"}
WeatherHeaders == {"Temp_C", "Rain_C", "RH_C"}

Ones == [c \in DataCols |-> 1]

Row(date, cells) == [date |-> date, cells |-> cells]

\* Sequences over S of length at most n.
SeqsUpTo(S, n) == UNION {[1..k -> S] : k \in 0..n}

\* A table with every column and two rows in two months.
FullTable ==
    [cols |-> AllHeaders,
     rows |-> <<Row(<<15, 1, 2020>>, [Ones EXCEPT !["temp_c"] = 0]),
                Row(<<20, 2, 2020>>, [Ones EXCEPT !["southern"] = 2])>>]

\* Tables that lack the date column or region columns, or spell a header with
\* other spacing; one of them has no rows.
SchemaTables ==
    {[FullTable EXCEPT !.cols = AllHeaders \ H] : H \in SUBSET ({"Date"} \cup RegionHeaders)}
    \cup {[FullTable EXCEPT !.cols = (AllHeaders \ {"East Coast", "Borneo"}) \cup {"East_Coast", " Borneo"}],
          [FullTable EXCEPT !.cols = (AllHeaders \ {"East Coast", "Borneo"}) \cup {"East_Coast"}],
          [cols |-> AllHeaders \ {"Borneo"}, rows |-> <<>>]}

\* The date cells: three months of two years with February 2020 left out, a
\* month of the year after, and a day the calendar does not have.
DateCells == {<<1, 12, 2019>>, <<15, 1, 2020>>, <<31, 3, 2020>>, <<15, 1, 2021>>, <<31, 2, 2020>>}

DateRows == {Row(d, [Ones EXCEPT !["southern"] = v]) : d \in DateCells, v \in 1..2}

\* Up to MaxRows rows, in any order, over the date cells.
DateTables == {[cols |-> AllHeaders, rows |-> r] : r \in SeqsUpTo(DateRows, MaxRows)}

\* What a region cell can hold.
CellValues == (0..MaxVal) \cup {NaN, NonNumeric}

\* Two rows whose southern and northern cells range over the cell values; the
\* second row is of the same month, or has no valid date.
ValueTables ==
    {[cols |-> AllHeaders,
      rows |-> <<Row(<<15, 1, 2020>>, [Ones EXCEPT !["southern"] = a, !["northern"] = b]),
                 Row(d, [Ones EXCEPT !["southern"] = c, !["northern"] = e])>>] :
        a \in CellValues, b \in CellValues, c \in CellValues, e \in CellValues,
        d \in {<<16, 1, 2020>>, <<16, 13, 2020>>}}
    \cup {[cols |-> AllHeaders,
           rows |-> <<Row(<<15, 1, 2020>>, [c \in DataCols |-> NonNumeric]),
                      Row(<<16, 1, 2020>>, Ones)>>]}

\* What a weather column can hold over three months: every series over
\* 0..2, series with missing readings, and one with text.
WeatherSeries ==
    [1..3 -> 0..2] \cup {<<NaN, 0, 1>>, <<NaN, NaN, 1>>, <<NonNumeric, 1, 2>>}
HumiditySeries == {<<0, 2, 1>>, <<0, 1, 2>>, <<1, 1, 1>>}
Absent == <<NaN, NaN, NaN>>

\* Three months with totals 4, 5, 6 and the weather columns present or not.
WeatherTables ==
    {[cols |-> AllHeaders \ ({"Temp_C" : x \in {1} \cap {IF t = Absent THEN 1 ELSE 0}}
                             \cup {"Rain_C" : x \in {1} \cap {IF r = Absent THEN 1 ELSE 0}}
                             \cup {"RH_C" : x \in {1} \cap {IF h = Absent THEN 1 ELSE 0}}),
      rows |-> [i \in 1..3 |->
                   Row(<<10, i, 2020>>,
                       [Ones EXCEPT !["southern"] = i - 1, !["temp_c"] = t[i],
                                    !["rain_c"] = r[i], !["rh_c"] = h[i]])]] :
        t \in WeatherSeries \cup {Absent}, r \in WeatherSeries \cup {Absent},
        h \in HumiditySeries \cup {Absent}}

\* January to May of one year with monthly totals 5 or 6, and the twelve
\* months of 2020 with the region values 10, 20, 30, 40, 50.
SeasonTables ==
    {[cols |-> AllHeaders,
      rows |-> [i \in 1..5 |-> Row(<<5, i, 2020>>, [Ones EXCEPT !["southern"] = v[i]])]] :
        v \in [1..5 -> 1..2]}
    \cup {[cols |-> AllHeaders,
           rows |-> [i \in 1..12 |->
                        Row(<<1, i, 2020>>,
                            [Ones EXCEPT !["southern"] = 10, !["northern"] = 20,
                                         !["central"] = 30, !["east_coast"] = 40,
                                         !["borneo"] = 50])]]}

Tables == SchemaTables \cup DateTables \cup ValueTables \cup WeatherTables \cup SeasonTables

\* The tables of the runs of a long-lived process.
ProcessTables ==
    {FullTable,
     [FullTable EXCEPT !.cols = AllHeaders \ {"Borneo"}],
     [cols |-> AllHeaders, rows |-> <<>>],
     [cols |-> AllHeaders, rows |-> <<Row(<<31, 2, 2020>>, Ones)>>]}

----------------------------------------------------------------------------
(* Specifications.                                                         *)

Fresh ==
    /\ reachable \in BOOLEAN
    /\ cache = [l \in Loaders |-> <<>>]
    /\ fetchLog = [l \in Loaders |-> <<>>]
    /\ runs = 0
    /\ page = "home"
    /\ pc = "idle"
    /\ fetched = FALSE
    /\ df = EmptyFrame
    /\ df_m = <<>>
    /\ stats = NoStats
    /\ err = NoErr

\* A server process: the pages are rerun, and the source comes and goes.
Init == source \in ProcessTables /\ Fresh

Next ==
    \/ \E p \in Pages : StartRun(p)
    \/ Load
    \/ Normalize
    \/ Aggregate
    \/ Summarize
    \/ SourceChange

Spec == Init /\ [][Next]_vars

\* The first run of a page in a fresh process, over every input table.
InitPipeline == source \in Tables /\ Fresh

FirstRun(p) == runs = 0 /\ StartRun(p)

NextPipeline ==
    \/ \E p \in Pages : FirstRun(p)
    \/ Load
    \/ Normalize
    \/ Aggregate
    \/ Summarize

SpecPipeline == InitPipeline /\ [][NextPipeline]_vars

----------------------------------------------------------------------------
(* Properties.                                                             *)

Last(s) == s[Len(s)]

\* The run's frame went through Normalize to the end.
HasTotals == "total_cases" \in df.cols

\* The run's monthly frame has been computed.
Aggregated == HasTotals /\ pc # "aggregate"

\* The current run fetched the source and got it.
LoadedNow == pc \notin {"idle", "load"} /\ fetched /\ Last(fetchLog[LoaderOf(page)]) = "ok"

\* The (Year, Month) pairs of the daily rows with a valid date.
DataMonths == {<<YearOf(df.rows[i].date), MonthOf(df.rows[i].date)>> : i \in 1..Len(df.rows)}

\* C1: the monthly aggregate has exactly one row per (Year, Month) pair that
\* occurs among the daily rows with a valid date: no month without a daily
\* row appears, and no month with one is absent.
C1_MonthlyRowsAreDataMonths ==
    Aggregated =>
        /\ {<<df_m[k].Year, MonthOf(df_m[k].date)>> : k \in 1..Len(df_m)} = DataMonths
        /\ Len(df_m) = Cardinality(DataMonths)

\* The region columns the source table lacks once its headers are normalised.
SourceMissing == MissingRegions({NormalizeHeader(c) : c \in source.cols})

\* C2: whenever the normalised table lacks region columns, the run ends in an
\* error that lists every missing region column, and neither a monthly
\* aggregate nor a statistic is produced.  (The runs taken are those that
\* loaded a table and went through the normalisation.)
C2_MissingRegionsReported ==
    (LoadedNow /\ err.kind # "load" /\ pc # "normalize" /\ SourceMissing # <<>>) =>
        /\ pc \in {"halted", "crashed"}
        /\ err.cols = SourceMissing
        /\ df_m = <<>>
        /\ stats = NoStats

\* The sum of a row's five region cells, a missing or non-numeric cell
\* counting as 0.
RECURSIVE RowSum(_, _)
RowSum(cells, i) ==
    IF i = 0 THEN 0
    ELSE RowSum(cells, i - 1) + (IF cells[regions[i]] \in {NaN, NonNumeric} THEN 0 ELSE cells[regions[i]])

\* C3: total_cases of every daily row is the sum of the row's five region
\* values, a missing or non-numeric value counting as 0 for that row only;
\* so total_cases >= 0.
C3_TotalIsSumOfFiveRegions ==
    HasTotals =>
        \A i \in 1..Len(df.rows) :
            /\ df.rows[i].total_cases = RowSum(df.rows[i].cells, Len(regions))
            /\ df.rows[i].total_cases >= 0

\* The load of the current run failed: its fetch failed, or load_data served
\* the empty frame it had stored for a failed fetch.
LoadFailedNow ==
    /\ pc \notin {"idle", "load"}
    /\ \/ fetched /\ Last(fetchLog[LoaderOf(page)]) = "fail"
       \/ ~fetched /\ cache[LoaderOf(page)] = <<EmptyFrame>>

\* C4: after a failed load the run is halted with the load error; the
\* failure does not escape the caller, and no normalisation, aggregation or
\* statistics step has run.
C4_FailedLoadHaltsRun ==
    LoadFailedNow =>
        /\ pc = "halted"
        /\ err.kind = "load"
        /\ df = EmptyFrame
        /\ df_m = <<>>
        /\ stats = NoStats

C4_Witness ==
    /\ LoadFailedNow
    /\ fetched
    /\ page = "visualise"
    /\ pc = "halted"

\* C5, as claimed: each loader fetches the one source URL at most once in the
\* life of the process.
C5_EachSourceFetchedOnce == \A l \in Loaders : Len(fetchLog[l]) <= 1

\* C5, amended: a loader does not fetch again once it has stored a result.
\* Its cache holds an entry exactly when a fetch has succeeded (load_raw) or
\* has been made at all (load_data), and every fetch but the last one failed.
C5_NoFetchOnceStored ==
    \A l \in Loaders :
        /\ \A i \in 1..(Len(fetchLog[l]) - 1) : fetchLog[l][i] = "fail"
        /\ l # "load_raw" => Len(fetchLog[l]) <= 1
        /\ cache[l] # <<>> <=>
              /\ fetchLog[l] # <<>>
              /\ l = "load_raw" => Last(fetchLog[l]) = "ok"

\* A later run of home.py served from the cache, after a run that fetched.
C5_Witness ==
    /\ page = "home"
    /\ pc \notin {"idle", "load"}
    /\ ~fetched
    /\ fetchLog["load_raw"] = <<"fail", "ok">>

LoadDataLoaders == {"load_data_vis", "load_data_reg"}

\* C10: once a fetch of load_data has failed, the empty frame is in its cache,
\* no later call fetches again, and every run of its page halts with the load
\* error, also when the source has become reachable.
C10_FailedFetchIsCached ==
    \A l \in LoadDataLoaders :
        (fetchLog[l] # <<>> /\ fetchLog[l][1] = "fail") =>
            /\ fetchLog[l] = <<"fail">>
            /\ cache[l] = <<EmptyFrame>>
            /\ (LoaderOf(page) = l /\ pc \notin {"idle", "load"}) =>
                   (pc = "halted" /\ err.kind = "load")

C10_Witness ==
    /\ page = "visualise"
    /\ pc = "halted"
    /\ ~fetched
    /\ reachable
    /\ fetchLog["load_data_vis"] = <<"fail">>

WeatherLabels == {"Temperature", "Rainfall", "Humidity"}

\* C6: when all three coefficients are undefined, no weather variable is
\* returned as the strongest factor.
C6_NoStrongestWhenAllUndefined ==
    (stats.kind = "visualise" /\ ~stats.corr_temp.def /\ ~stats.corr_rain.def /\ ~stats.corr_rh.def)
        => stats.strongest \notin WeatherLabels

\* The coefficient the summary holds for a label.
CorrOf(label) ==
    CASE label = "Temperature" -> stats.corr_temp
      [] label = "Rainfall" -> stats.corr_rain
      [] label = "Humidity" -> stats.corr_rh

\* The column behind a label.
ColumnOf(label) ==
    CASE label = "Temperature" -> "temp_c"
      [] label = "Rainfall" -> "rain_c"
      [] label = "Humidity" -> "rh_c"

\* C7: when a coefficient is defined, the strongest factor has a defined
\* coefficient whose absolute value is the greatest among the defined ones;
\* the coefficient of a column the table lacks is undefined, and such a
\* column is never the strongest factor.
C7_StrongestIsGreatestDefined ==
    stats.kind = "visualise" =>
        /\ \A x \in WeatherLabels : ColumnOf(x) \notin df.cols => ~CorrOf(x).def
        /\ (\E x \in WeatherLabels : CorrOf(x).def) =>
               /\ stats.strongest \in WeatherLabels
               /\ CorrOf(stats.strongest).def
               /\ \A x \in WeatherLabels :
                      CorrOf(x).def => Abs(CorrOf(x).v) <= Abs(CorrOf(stats.strongest).v)

\* No temperature column; humidity beats rainfall.
C7_Witness ==
    /\ stats.kind = "visualise"
    /\ "temp_c" \notin df.cols
    /\ stats.corr_rain.def
    /\ stats.corr_rh.def
    /\ Abs(stats.corr_rain.v) < Abs(stats.corr_rh.v)
    /\ stats.strongest = "Humidity"

\* C8: a run in which no row survives date parsing ends in the fatal
\* insufficient-data condition, and computes no statistic.
C8_EmptyMonthlyIsFatal ==
    (Aggregated /\ Len(df.rows) = 0) =>
        /\ pc = "halted"
        /\ err.kind = "empty_monthly"
        /\ stats = NoStats

\* Calendar month a ranks before b: a greater mean, or an equal one and the
\* earlier month.
RanksBefore(a, b) ==
    \/ RatLess(MonthGroupMean(df_m, b), MonthGroupMean(df_m, a))
    \/ /\ ~RatLess(MonthGroupMean(df_m, a), MonthGroupMean(df_m, b))
       /\ a < b

\* C9: with three or more calendar months of data, the seasonal peak months
\* are the 3 months with the highest means, a tie going to the earlier month,
\* reported in calendar order.
C9_SeasonalPeakMonths ==
    LET defd == {mo \in MonthsPresent(df_m) : MonthGroupMean(df_m, mo).def}
    IN  (stats.kind = "home" /\ Cardinality(defd) >= 3) =>
            /\ Cardinality(stats.top_months) = 3
            /\ stats.top_months \subseteq defd
            /\ \A a \in stats.top_months : \A b \in defd \ stats.top_months : RanksBefore(a, b)
            /\ \A i \in 1..2 : \E a, b \in stats.top_months :
                   /\ a < b
                   /\ stats.seasonal_peak[i] = month_names[a]
                   /\ stats.seasonal_peak[i + 1] = month_names[b]

====
